---- MODULE Spec2Model ----
(***************************************************************************)
(* Timetable generator: the constraint-satisfaction scheduling engine of   *)
(* timetable_generator/algorithm.py.  One generate_timetable call is a     *)
(* run of the state machine: the solver object is constructed, variables   *)
(* and constraints are added, the python-constraint Problem enumerates its *)
(* solutions by backtracking with forward checking, the first solution is  *)
(* materialized into a grid and the (success, grid, message) triple is     *)
(* returned.                                                               *)
(***************************************************************************)
EXTENDS Integers, Sequences, FiniteSets, TLC

VARIABLES
    faculty_data,       \* input: faculty id -> faculty record
    course_data,        \* input: course id (1..n, insertion order) -> course record
    constraints_data,   \* input: constraint id -> preference record
    section_name,       \* input: the name of the section the timetable is for
    pc,                 \* position of the call inside generate_timetable
    problem,            \* csp.problem: variables (domains) and constraints
    course_vars,        \* csp.course_vars: course id -> variable
    preferred_constraints, \* csp.preferred_constraints (soft layer, side attribute)
    domains,            \* solver: variable -> Domain (visible, hidden, states)
    vconstraints,       \* solver: variable -> constraints over it
    assignments,        \* solver: ordered dict variable -> slot
    queue,              \* solver: stack of (variable, values, pushdomains)
    variable,           \* solver: variable being tried
    values,             \* solver: values left to try for it
    pushdomains,        \* solver: variables whose domains are forward checked
    solutions,          \* list collected by getSolutions
    solution,           \* csp.solution
    result,             \* the triple generate_timetable returns
    bindings,           \* number of tentative bindings made by the search so far
    call,               \* number of the current generate_timetable call
    history,            \* results of the earlier calls on the same input
    parked,             \* the state of another call in progress while it does not run
    validated_df, \* the grid handed to validate_solution
    violations,         \* the list validate_solution returns
    request,            \* what the endpoint was asked and what its database holds
    response,           \* what the endpoint answers
    arguments,          \* the arguments of a function called on its own
    returned            \* what that function returned

vars == <<faculty_data, course_data, constraints_data, section_name, pc, problem,
          course_vars, preferred_constraints, domains, vconstraints, assignments,
          queue, variable, values, pushdomains, solutions, solution, result,
          bindings, call, history, parked, validated_df, violations, request, response,
          arguments, returned>>

input_vars == <<faculty_data, course_data, constraints_data, section_name>>

\* what lies outside one generate_timetable call and its repetition
outer_vars == <<parked, validated_df, violations, request, response, arguments,
                returned>>

solver_vars == <<domains, vconstraints, assignments, queue, variable, values,
                 pushdomains, solutions, bindings>>

----------------------------------------------------------------------------
(* Bounds of the model *)

\* largest number of courses in course_data
MaxCourses == 2

\* number of generate_timetable calls made one after the other on one input
MaxCalls == 2

----------------------------------------------------------------------------
(* Constants of the program *)

DAYS == <<"Monday", "Tuesday", "Wednesday", "Thursday", "Friday">>

\* PERIODS: the numbers of the seven teaching periods
PERIODS == <<1, 2, 3, 4, 5, 6, 7>>

\* SCHEDULABLE_PERIODS = [p.number for p in PERIODS]
SCHEDULABLE_PERIODS == [i \in 1..Len(PERIODS) |-> PERIODS[i]]

\* BREAKS: the period after which each break falls (P2/P3, lunch P4/P5, P5/P6)
BREAKS == <<2, 4, 5>>

\* Python's None
None == << >>

\* the empty cell of the grid
EmptyCell == << >>

\* section names such as the "II Year IT A" of the docstrings
SectionA == "II Year IT A"
SectionB == "II Year IT B"

MsgNoCourses == "No courses found for section."
MsgInfeasible == "No feasible solution found. Check faculty availability and course requirements."
MsgSuccess == "Timetable generated successfully!"

----------------------------------------------------------------------------
(* Helpers for Python lists and dicts *)

Range(s) == {s[i] : i \in DOMAIN s}

\* d.get(key, default)
Get(d, key, default) == IF key \in DOMAIN d THEN d[key] ELSE default

\* the last element of a list and the list without it (list.pop())
Last(s) == s[Len(s)]
Front(s) == SubSeq(s, 1, Len(s) - 1)

\* the ascending list of a set of integers
RECURSIVE SortedSeq(_)
SortedSeq(S) ==
    IF S = {} THEN << >>
    ELSE LET m == CHOOSE x \in S : \A y \in S : x <= y
         IN  <<m>> \o SortedSeq(S \ {m})

\* an ordered dict (insertion order kept) as a list of <<key, value>> pairs
Keys(od) == {od[i][1] : i \in DOMAIN od}
ValueOf(od, k) == od[CHOOSE i \in DOMAIN od : od[i][1] = k][2]
\* od[k] = v: an existing key keeps its place, a new key goes last
SetItem(od, k, v) ==
    IF k \in Keys(od)
    THEN [i \in DOMAIN od |-> IF od[i][1] = k THEN <<k, v>> ELSE od[i]]
    ELSE Append(od, <<k, v>>)
\* del od[k]
DelItem(od, k) == SelectSeq(od, LAMBDA kv : kv[1] # k)

----------------------------------------------------------------------------
(* Inputs of a call *)

FacultyName(fid) == IF fid = 1 THEN "Dr. A" ELSE "Ms. B"

CourseCode(cid) == IF cid = 1 THEN "IT301" ELSE IF cid = 2 THEN "IT302" ELSE "IT303"

\* available_slots records: a day without an entry is absent from the dict
AvailableSlotsChoices ==
    { << >>,
      [d \in {"Monday"} |-> {3}],
      [d \in {"Monday"} |-> {2, 3}],
      [d \in {"Monday"} |-> {1, 2}],
      [d \in {"Monday", "Tuesday"} |-> {2, 3}] }

FullyAvailable == [d \in Range(DAYS) |-> Range(SCHEDULABLE_PERIODS)]

FacultyRecord(fid, slots) ==
    [name |-> FacultyName(fid), available_slots |-> slots, is_external |-> FALSE]

\* faculty 1 is always known; faculty 2 may be missing from faculty_data
FacultyDataChoices ==
    { [f \in {1} |-> FacultyRecord(f, a)] : a \in AvailableSlotsChoices }
    \cup
    { [f \in {1, 2} |-> FacultyRecord(f, IF f = 1 THEN a ELSE b)] :
        a \in AvailableSlotsChoices, b \in AvailableSlotsChoices }

RequiredFacultyChoices == {<<1>>, <<2>>, <<1, 2>>}

CourseRecord(cid, bs, req) ==
    [code |-> CourseCode(cid),
     type |-> IF bs = 2 THEN "LAB" ELSE "THEORY",
     required_faculty_ids |-> req,
     block_size |-> bs]

CourseChoices(cid) ==
    { CourseRecord(cid, bs, req) : bs \in {1, 2}, req \in RequiredFacultyChoices }

\* course_data: ids 1..n in insertion order (n = 0: no course at all)
CourseDataChoices ==
    UNION { { cd \in [1..n -> UNION {CourseChoices(c) : c \in 1..n}] :
                \A c \in 1..n : cd[c] \in CourseChoices(c) } : n \in 0..MaxCourses }

\* constraints_data: no preference, or course 1 preferring a day
ConstraintsDataChoices ==
    { << >>,
      [k \in {1} |-> [course_id |-> 1, preferred_days |-> <<"Friday">>]] }

\* Scenario A: one faculty available every period of every day, one THEORY course
ScenarioAFaculty == [f \in {1} |-> FacultyRecord(f, FullyAvailable)]
ScenarioACourses == [c \in {1} |-> CourseRecord(c, 1, <<1>>)]

----------------------------------------------------------------------------
(* TimetableCSP.add_variables: the domains *)

\* [f(day, p) for day in DAYS for p in SCHEDULABLE_PERIODS]: day-major order
DayPeriodPairs ==
    [i \in 1..(Len(DAYS) * Len(SCHEDULABLE_PERIODS)) |->
        <<DAYS[((i - 1) \div Len(SCHEDULABLE_PERIODS)) + 1],
          SCHEDULABLE_PERIODS[((i - 1) % Len(SCHEDULABLE_PERIODS)) + 1]>>]

\* [(day, p, p+1) for day in DAYS for p in SCHEDULABLE_PERIODS if p+1 <= 7]
lab_domain ==
    LET kept == SelectSeq(DayPeriodPairs, LAMBDA dp : dp[2] + 1 <= 7)
    IN  [i \in 1..Len(kept) |-> <<kept[i][1], kept[i][2], kept[i][2] + 1>>]

\* [(day, p, p) for day in DAYS for p in SCHEDULABLE_PERIODS]
theory_domain ==
    [i \in 1..Len(DayPeriodPairs) |->
        <<DayPeriodPairs[i][1], DayPeriodPairs[i][2], DayPeriodPairs[i][2]>>]

\* the domain add_variables gives a course
CourseDomain(course) ==
    IF Get(course, "block_size", 1) = 2 THEN lab_domain ELSE theory_domain

\* a fresh constraint.Domain: the visible values, the hidden ones, the saved sizes
NewDomain(vals) == [vis |-> vals, hidden |-> << >>, states |-> << >>]

\* constraint.Problem(): no variable, no constraint
NewProblem == [variables |-> << >>, constraints |-> << >>]

\* a solver object that keeps the problem of the call before
InitProblemKept(old) == old

\* TimetableCSP.__init__: self.problem = Problem()
InitProblem(old) == NewProblem

\* the comprehension filtering on the section alone
courses_of_section(name) ==
    SelectSeq([i \in 1..Len(course_data) |-> i], LAMBDA course_id :
        /\ "section_id" \in DOMAIN course_data[course_id]
        /\ course_data[course_id].section_id = name)

\* [cid for cid, course in course_data.items()
\*      if course.get("section_id") == section_name or True]
courses_for(name) ==
    SelectSeq([i \in 1..Len(course_data) |-> i], LAMBDA course_id :
        \/ /\ "section_id" \in DOMAIN course_data[course_id]
           /\ course_data[course_id].section_id = name
        \/ TRUE)

courses_to_schedule == courses_for(section_name)

----------------------------------------------------------------------------
(* The constraint predicates *)

\* faculty_available looking only at the first period of the block
faculty_available_start(slot, fac_ids) ==
    \A i \in DOMAIN fac_ids :
        /\ fac_ids[i] \in DOMAIN faculty_data
        /\ slot[2] \in Get(Get(faculty_data[fac_ids[i]], "available_slots", << >>),
                           slot[1], {})

\* faculty_available taking a day without an entry as a day without limits
faculty_available_open(slot, fac_ids) ==
    \A i \in DOMAIN fac_ids :
        LET fac_id == fac_ids[i] IN
        /\ fac_id \in DOMAIN faculty_data
        /\ LET available_on_day ==
                   Get(Get(faculty_data[fac_id], "available_slots", << >>), slot[1],
                       Range(SCHEDULABLE_PERIODS))
           IN  \A period \in slot[2]..slot[3] : period \in available_on_day

\* faculty_available(slot, fac_ids)
faculty_available(slot, fac_ids) ==
    \A i \in DOMAIN fac_ids :
        LET fac_id == fac_ids[i] IN
        /\ fac_id \in DOMAIN faculty_data
        /\ LET available_on_day ==
                   Get(Get(faculty_data[fac_id], "available_slots", << >>), slot[1], {})
           IN  \A period \in slot[2]..slot[3] : period \in available_on_day

\* no_clash comparing only the first periods of the two slots
no_clash_starts(slot1, slot2) ==
    IF slot1[1] # slot2[1] THEN TRUE ELSE slot1[2] # slot2[2]

\* no_clash with strict comparisons: blocks that only touch are let through
no_clash_exclusive(slot1, slot2) ==
    IF slot1[1] # slot2[1] THEN TRUE
    ELSE IF \/ (slot1[2] <= slot2[2] /\ slot2[2] < slot1[3])
            \/ (slot2[2] <= slot1[2] /\ slot1[2] < slot2[3])
         THEN FALSE
         ELSE TRUE

\* no_clash(slot1, slot2)
no_clash(slot1, slot2) ==
    IF slot1[1] # slot2[1] THEN TRUE
    ELSE IF \/ (slot1[2] <= slot2[2] /\ slot2[2] <= slot1[3])
            \/ (slot2[2] <= slot1[2] /\ slot1[2] <= slot2[3])
         THEN FALSE
         ELSE TRUE

\* prefer_days(slot, pref_days) of add_preferred_days_constraint
prefer_days(slot, pref_days) == slot[1] \in Range(pref_days)

RequiredFaculty(cid) == Range(Get(course_data[cid], "required_faculty_ids", << >>))

\* a builder that adds no constraint between any two courses
ClashPairsNone(course_list) == << >>

\* a builder that constrains every pair of courses, sharing faculty or not
ClashPairsAll(course_list) ==
    LET n == Len(course_list)
        all == [k \in 1..(n * n) |-> <<((k - 1) \div n) + 1, ((k - 1) % n) + 1>>]
        kept == SelectSeq(all, LAMBDA ij : ij[1] < ij[2])
    IN  [k \in 1..Len(kept) |->
            [func |-> "no_clash",
             vars |-> <<course_vars[course_list[kept[k][1]]],
                        course_vars[course_list[kept[k][2]]]>>]]

\* the pairs (i < j, in list order) of add_no_clash_constraint that share faculty
ClashPairs(course_list) ==
    LET n == Len(course_list)
        all == [k \in 1..(n * n) |-> <<((k - 1) \div n) + 1, ((k - 1) % n) + 1>>]
        kept == SelectSeq(all, LAMBDA ij :
                    /\ ij[1] < ij[2]
                    /\ RequiredFaculty(course_list[ij[1]])
                         \cap RequiredFaculty(course_list[ij[2]]) # {})
    IN  [k \in 1..Len(kept) |->
            [func |-> "no_clash",
             vars |-> <<course_vars[course_list[kept[k][1]]],
                        course_vars[course_list[kept[k][2]]]>>]]

\* a constraint applied to a complete binding of its variables
Holds(con, asg) ==
    IF con.func = "faculty_available"
    THEN faculty_available(ValueOf(asg, con.vars[1]), con.fac_ids)
    ELSE IF con.func = "prefer_days"
    THEN prefer_days(ValueOf(asg, con.vars[1]), con.pref_days)
    ELSE no_clash(ValueOf(asg, con.vars[1]), ValueOf(asg, con.vars[2]))

----------------------------------------------------------------------------
(* constraint.Problem and its default BacktrackingSolver (forward checking), *)
(* which TimetableCSP.solve runs through self.problem.getSolutions()         *)

\* var_name = f"course_{course_id}"
VarName(course_id) == <<"course", course_id>>

\* int(var_name.split("_")[1])
CourseIdOf(var_name) == var_name[2]

\* the order of two variable names ("course_1" < "course_2" < ...)
NameLess(a, b) == a[2] < b[2]

\* preProcess leaving the domain as it is
FilterDomainNone(var, vals, cons) == vals

\* Constraint.preProcess of the single-variable constraints: every value the
\* constraint rejects is removed from the variable's domain for good
FilterDomain(var, vals, cons) ==
    SelectSeq(vals, LAMBDA value :
        \A i \in DOMAIN cons :
            (Len(cons[i].vars) = 1 /\ cons[i].vars[1] = var)
                => Holds(cons[i], <<<<var, value>>>>))

\* Problem._getArgs raises KeyError for a constraint over a variable the problem
\* does not hold; solve() catches it and returns False
GetArgsRaises(prob) ==
    \E i \in DOMAIN prob.constraints :
        \E var \in Range(prob.constraints[i].vars) : var \notin DOMAIN prob.variables

\* Problem._getArgs: the domains after preProcess and resetState
PreProcessed(prob) ==
    [var \in DOMAIN prob.variables |->
        NewDomain(FilterDomain(var, prob.variables[var].vis, prob.constraints))]

\* Problem._getArgs: vconstraints once preProcess has dropped the unary ones
VConstraintsOf(prob) ==
    [var \in DOMAIN prob.variables |->
        SelectSeq(prob.constraints, LAMBDA con :
            Len(con.vars) > 1 /\ var \in Range(con.vars))]

\* Problem._getArgs returns no domains when one is empty, and getSolutions
\* returns [] when there are no domains
NoSearchNeeded(doms) ==
    \/ DOMAIN doms = {}
    \/ \E var \in DOMAIN doms : doms[var].vis = << >>

\* Domain.pushState / popState / hideValue
pushState(dom) == [dom EXCEPT !.states = Append(dom.states, Len(dom.vis))]

popState(dom) ==
    LET diff == Last(dom.states) - Len(dom.vis)
        k == Len(dom.hidden)
    IN  [vis |-> dom.vis \o SubSeq(dom.hidden, k - diff + 1, k),
         hidden |-> SubSeq(dom.hidden, 1, k - diff),
         states |-> Front(dom.states)]

PushStates(doms, pushed) ==
    [var \in DOMAIN doms |-> IF var \in pushed THEN pushState(doms[var]) ELSE doms[var]]

PopStates(doms, pushed) ==
    [var \in DOMAIN doms |-> IF var \in pushed THEN popState(doms[var]) ELSE doms[var]]

\* forwardCheck hiding the values that satisfy the constraint
ForwardCheckedInverted(con, other, dom, asg) ==
    LET bad(value) == ~Holds(con, SetItem(asg, other, value))
    IN  [dom EXCEPT !.vis = SelectSeq(dom.vis, bad),
                    !.hidden = dom.hidden \o SelectSeq(dom.vis, LAMBDA value : ~bad(value))]

\* Constraint.forwardCheck on the one unassigned variable of a binary constraint:
\* the values that break the constraint are hidden, in domain order
ForwardChecked(con, other, dom, asg) ==
    LET good(value) == Holds(con, SetItem(asg, other, value))
    IN  [dom EXCEPT !.vis = SelectSeq(dom.vis, good),
                    !.hidden = dom.hidden \o SelectSeq(dom.vis, LAMBDA value : ~good(value))]

\* the solver's loop over vconstraints[variable], stopping at the first constraint
\* that fails; forward checking changes the domains as it goes
RECURSIVE CheckConstraints(_, _, _, _, _)
CheckConstraints(cons, i, doms, asg, pushed) ==
    IF i > Len(cons) THEN [ok |-> TRUE, doms |-> doms]
    ELSE
      LET con == cons[i]
          missing == Range(con.vars) \ Keys(asg)
      IN  IF missing = {}
          THEN IF Holds(con, asg)
               THEN CheckConstraints(cons, i + 1, doms, asg, pushed)
               ELSE [ok |-> FALSE, doms |-> doms]
          ELSE IF pushed = {} \/ Cardinality(missing) # 1
               THEN CheckConstraints(cons, i + 1, doms, asg, pushed)
               ELSE
                 LET other == CHOOSE v \in missing : TRUE
                     checked == IF doms[other].vis = << >> THEN doms[other]
                                ELSE ForwardChecked(con, other, doms[other], asg)
                     doms2 == [doms EXCEPT ![other] = checked]
                 IN  IF checked.vis = << >>
                     THEN [ok |-> FALSE, doms |-> doms2]
                     ELSE CheckConstraints(cons, i + 1, doms2, asg, pushed)

\* the sort key mixing the degree and minimum-remaining-values heuristics
KeyLess(a, b) ==
    LET ka == <<0 - Len(vconstraints[a]), Len(domains[a].vis)>>
        kb == <<0 - Len(vconstraints[b]), Len(domains[b].vis)>>
    IN  \/ ka[1] < kb[1]
        \/ (ka[1] = kb[1] /\ ka[2] < kb[2])
        \/ (ka[1] = kb[1] /\ ka[2] = kb[2] /\ NameLess(a, b))

\* a solver that takes the assignment for complete once any variable is bound
UnassignedAnyBound == IF assignments # << >> THEN {} ELSE DOMAIN domains

Unassigned == DOMAIN domains \ Keys(assignments)

\* the first unassigned variable of the sorted list
NextVariable == CHOOSE v \in Unassigned : \A w \in Unassigned \ {v} : KeyLess(v, w)

\* going back to the last variable that still has values: each popped entry's
\* pushed domains are restored, and an exhausted variable is unbound
RECURSIVE Unwind(_, _, _)
Unwind(q, asg, doms) ==
    IF q = << >> THEN [found |-> FALSE, queue |-> q, assignments |-> asg, domains |-> doms,
                       variable |-> None, values |-> << >>, pushdomains |-> {}]
    ELSE
      LET top == Last(q)
          doms2 == PopStates(doms, top.pushdomains)
      IN  IF top.values # << >>
          THEN [found |-> TRUE, queue |-> Front(q), assignments |-> asg, domains |-> doms2,
                variable |-> top.variable, values |-> top.values,
                pushdomains |-> top.pushdomains]
          ELSE Unwind(Front(q), DelItem(asg, top.variable), doms2)

----------------------------------------------------------------------------
(* Materialization *)

\* schedule_str = f"{course['code']} | {faculty_str}": the code and the names joined
ScheduleStr(course) ==
    LET faculty_ids == Get(course, "required_faculty_ids", << >>)
    IN  <<course.code,
          [i \in DOMAIN faculty_ids |->
              Get(faculty_data[faculty_ids[i]], "name", <<"Faculty", faculty_ids[i]>>)]>>

\* build_timetable_dict: the items of the solution are written in order, a later
\* item overwriting the cells of an earlier one
RECURSIVE FillTimetable(_, _, _)
FillTimetable(timetable, sol, i) ==
    IF i > Len(sol) THEN timetable
    ELSE
      LET slot == sol[i][2]
          course == course_data[CourseIdOf(sol[i][1])]
          filled == [timetable EXCEPT ![slot[1]] =
                        [p \in DOMAIN timetable[slot[1]] |->
                            IF p \in slot[2]..slot[3] THEN ScheduleStr(course)
                            ELSE timetable[slot[1]][p]]]
      IN  FillTimetable(filled, sol, i + 1)

build_timetable_dict(sol) ==
    FillTimetable([day \in Range(DAYS) |->
                      [p \in Range(SCHEDULABLE_PERIODS) |-> EmptyCell]], sol, 1)

\* build_timetable_dict raises KeyError: course_data[course_id] for a variable of
\* no course, faculty_data[fid] for an unknown id, course['code'] for a record
\* without a code
BuildRaises(sol) ==
    \E i \in DOMAIN sol :
        LET course_id == CourseIdOf(sol[i][1]) IN
        \/ course_id \notin DOMAIN course_data
        \/ \E fid \in RequiredFaculty(course_id) : fid \notin DOMAIN faculty_data
        \/ "code" \notin DOMAIN course_data[course_id]

\* a frame whose columns are the periods the day's dictionary holds
create_timetable_dataframe_given(timetable_dict) ==
    [i \in 1..Len(DAYS) |->
        [Day |-> DAYS[i],
         cells |-> [p \in DOMAIN timetable_dict[DAYS[i]] |-> timetable_dict[DAYS[i]][p]]]]

\* timetable_dict[day] of create_timetable_dataframe raises KeyError for a day
\* the dictionary does not hold
DataFrameRaises(timetable_dict) ==
    \E i \in DOMAIN DAYS : DAYS[i] \notin DOMAIN timetable_dict

\* create_timetable_dataframe: one row per day of DAYS, one column per period
create_timetable_dataframe(timetable_dict) ==
    [i \in 1..Len(DAYS) |->
        [Day |-> DAYS[i],
         cells |-> [p \in Range(SCHEDULABLE_PERIODS) |->
                       Get(timetable_dict[DAYS[i]], p, EmptyCell)]]]

----------------------------------------------------------------------------
(* The state machine of generate_timetable *)

NoResult == [success |-> FALSE, grid |-> None, message |-> ""]

\* a failure that hands back an empty grid instead of None
FailureTripleEmptyGrid(message) ==
    [success |-> FALSE,
     grid |-> create_timetable_dataframe(build_timetable_dict(<< >>)),
     message |-> message]

\* return False, None, <message>
FailureTriple(message) == [success |-> FALSE, grid |-> None, message |-> message]

\* return True, df, "Timetable generated successfully!"
SuccessTriple(df) == [success |-> TRUE, grid |-> df, message |-> MsgSuccess]

IdleSolver ==
    /\ domains = << >>
    /\ vconstraints = << >>
    /\ assignments = << >>
    /\ queue = << >>
    /\ variable = None
    /\ values = << >>
    /\ pushdomains = {}
    /\ solutions = << >>
    /\ bindings = 0

InitCall ==
    /\ pc = "start"
    /\ problem = NewProblem
    /\ course_vars = << >>
    /\ preferred_constraints = << >>
    /\ IdleSolver
    /\ solution = << >>
    /\ result = NoResult
    /\ call = 1
    /\ history = << >>

\* nothing around the call: no other call, no validator, no endpoint
NoOuter ==
    /\ parked = None
    /\ validated_df = None
    /\ violations = None
    /\ request = None
    /\ response = None
    /\ arguments = None
    /\ returned = None

Init ==
    /\ \/ /\ faculty_data \in FacultyDataChoices
          /\ course_data \in CourseDataChoices
       \/ /\ faculty_data = ScenarioAFaculty
          /\ course_data = ScenarioACourses
    /\ constraints_data \in ConstraintsDataChoices
    /\ section_name = SectionA
    /\ InitCall
    /\ NoOuter

\* generate_timetable constructing the solver whatever courses_to_schedule holds
BeginUnchecked ==
    /\ pc = "start"
    /\ pc' = "csp"
    /\ problem' = InitProblem(problem)
    /\ solution' = << >>
    /\ UNCHANGED <<input_vars, result, course_vars, preferred_constraints,
                   solver_vars, call, history, outer_vars>>

\* generate_timetable up to csp = TimetableCSP(faculty_data, course_data)
Begin ==
    /\ pc = "start"
    /\ IF courses_to_schedule = << >>
       THEN /\ pc' = "done"
            /\ result' = FailureTriple(MsgNoCourses)
            /\ UNCHANGED <<problem, solution>>
       ELSE /\ pc' = "csp"
            /\ problem' = InitProblem(problem)
            /\ solution' = << >>
            /\ UNCHANGED result
    /\ UNCHANGED <<input_vars, course_vars, preferred_constraints, solver_vars,
                   call, history, outer_vars>>

\* the loop of add_variables from the i-th course on: Problem.addVariable raises
\* ValueError for a variable the problem already holds, and the courses before
\* it stay added
RECURSIVE AddEach(_, _, _, _)
AddEach(courses, i, variables, cvars) ==
    IF i > Len(courses)
    THEN [raised |-> FALSE, variables |-> variables, course_vars |-> cvars]
    ELSE LET course_id == courses[i]
             var_name == VarName(course_id)
         IN  IF var_name \in DOMAIN variables
             THEN [raised |-> TRUE, variables |-> variables, course_vars |-> cvars]
             ELSE AddEach(courses, i + 1,
                          variables @@ (var_name :>
                              NewDomain(CourseDomain(course_data[course_id]))),
                          cvars @@ (course_id :> var_name))

\* csp.add_variables(section_name, courses_to_schedule): self.course_vars starts
\* from {} and gets an entry per course added
AddVariables ==
    /\ pc = "csp"
    /\ LET added == AddEach(courses_to_schedule, 1, problem.variables, << >>) IN
       /\ pc' = IF added.raised THEN "raised" ELSE "vars"
       /\ problem' = [problem EXCEPT !.variables = added.variables]
       /\ course_vars' = added.course_vars
    /\ UNCHANGED <<input_vars, preferred_constraints, solver_vars, solution, result,
                   call, history, outer_vars>>

\* csp.add_faculty_availability_constraint(): one unary constraint per course
AddFacultyAvailabilityConstraint ==
    /\ pc = "vars"
    /\ pc' = "avail"
    /\ problem' = [problem EXCEPT !.constraints = @ \o
           LET ids == SortedSeq(DOMAIN course_vars) IN
           [k \in 1..Len(ids) |->
               [func |-> "faculty_available",
                vars |-> <<course_vars[ids[k]]>>,
                fac_ids |-> Get(course_data[ids[k]], "required_faculty_ids", << >>)]]]
    /\ UNCHANGED <<input_vars, course_vars, preferred_constraints, solver_vars,
                   solution, result, call, history, outer_vars>>

\* csp.add_no_clash_constraint(): one binary constraint per pair sharing faculty
AddNoClashConstraint ==
    /\ pc = "avail"
    /\ pc' = "clash"
    /\ problem' = [problem EXCEPT !.constraints =
                      @ \o ClashPairs(SortedSeq(DOMAIN course_vars))]
    /\ UNCHANGED <<input_vars, course_vars, preferred_constraints, solver_vars,
                   solution, result, call, history, outer_vars>>

\* the preferences add_preferred_days_constraint stores: records without
\* preferred days or for a course that has no variable are skipped
StoredPreferences ==
    LET usable == {k \in DOMAIN constraints_data :
                      /\ Get(constraints_data[k], "preferred_days", << >>) # << >>
                      /\ "course_id" \in DOMAIN constraints_data[k]
                      /\ constraints_data[k].course_id \in DOMAIN course_vars}
    IN  [var \in {course_vars[constraints_data[k].course_id] : k \in usable} |->
            LET last == CHOOSE k \in usable :
                           /\ course_vars[constraints_data[k].course_id] = var
                           /\ \A j \in usable :
                                 course_vars[constraints_data[j].course_id] = var => j <= k
            IN  constraints_data[last].preferred_days]

\* add_preferred_days_constraint handing each stored preference to the problem
\* as a constraint on its variable
AddPreferredDaysConstraintHard ==
    /\ pc = "clash"
    /\ pc' = "pref"
    /\ preferred_constraints' = StoredPreferences
    /\ problem' = [problem EXCEPT !.constraints = @ \o
           LET ids == SortedSeq({CourseIdOf(var) : var \in DOMAIN StoredPreferences}) IN
           [k \in 1..Len(ids) |->
               [func |-> "prefer_days",
                vars |-> <<VarName(ids[k])>>,
                pref_days |-> StoredPreferences[VarName(ids[k])]]]]
    /\ UNCHANGED <<input_vars, course_vars, solver_vars, solution, result,
                   call, history, outer_vars>>

\* add_preferred_days_constraint taking each record out of constraints_data as
\* it stores it
AddPreferredDaysConstraintConsuming ==
    /\ pc = "clash"
    /\ pc' = "pref"
    /\ preferred_constraints' = StoredPreferences
    /\ constraints_data' = << >>
    /\ UNCHANGED <<faculty_data, course_data, section_name, problem, course_vars,
                   solver_vars, solution, result, call, history, outer_vars>>

\* csp.add_preferred_days_constraint(constraints_data): stored aside, never
\* handed to the problem
AddPreferredDaysConstraint ==
    /\ pc = "clash"
    /\ pc' = "pref"
    /\ preferred_constraints' = StoredPreferences
    /\ UNCHANGED <<input_vars, problem, course_vars, solver_vars, solution, result,
                   call, history, outer_vars>>

\* csp.solve() enters problem.getSolutions(): the unary constraints filter the
\* domains; an empty domain ends the call to getSolutions with no solution, an
\* exception inside it is caught by solve()
SolveBegin ==
    /\ pc = "pref"
    /\ IF GetArgsRaises(problem)
       THEN /\ pc' = "solved"
            /\ UNCHANGED <<domains, vconstraints>>
       ELSE LET doms == PreProcessed(problem) IN
            /\ domains' = doms
            /\ IF NoSearchNeeded(doms)
               THEN /\ pc' = "solved"
                    /\ UNCHANGED vconstraints
               ELSE /\ pc' = "select"
                    /\ vconstraints' = VConstraintsOf(problem)
    /\ assignments' = << >>
    /\ queue' = << >>
    /\ solutions' = << >>
    /\ UNCHANGED <<input_vars, problem, course_vars, preferred_constraints, variable,
                   values, pushdomains, bindings, solution, result, call, history, outer_vars>>

\* the solver finds the next unassigned variable
SelectVariable ==
    /\ pc = "select"
    /\ Unassigned # {}
    /\ pc' = "try"
    /\ variable' = NextVariable
    /\ values' = domains[NextVariable].vis
    /\ pushdomains' = Unassigned \ {NextVariable}
    /\ UNCHANGED <<input_vars, problem, course_vars, preferred_constraints, domains,
                   vconstraints, assignments, queue, solutions, bindings, solution,
                   result, call, history, outer_vars>>

\* no unassigned variable is left: the assignment is a solution, and the solver
\* goes back to the last variable to look for the next one
YieldSolution ==
    /\ pc = "select"
    /\ Unassigned = {}
    /\ solutions' = Append(solutions, assignments)
    /\ IF queue = << >>
       THEN /\ pc' = "solved"
            /\ UNCHANGED <<variable, values, pushdomains, queue, domains>>
       ELSE /\ pc' = "try"
            /\ variable' = Last(queue).variable
            /\ values' = Last(queue).values
            /\ pushdomains' = Last(queue).pushdomains
            /\ queue' = Front(queue)
            /\ domains' = PopStates(domains, Last(queue).pushdomains)
    /\ UNCHANGED <<input_vars, problem, course_vars, preferred_constraints,
                   vconstraints, assignments, bindings, solution, result, call, history, outer_vars>>

\* the solver binds the variable to values.pop() and checks its constraints
TryValue ==
    /\ pc = "try"
    /\ values # << >>
    /\ LET asg == SetItem(assignments, variable, Last(values))
           chk == CheckConstraints(vconstraints[variable], 1,
                                   PushStates(domains, pushdomains), asg, pushdomains)
       IN  /\ assignments' = asg
           /\ values' = Front(values)
           /\ bindings' = bindings + 1
           /\ IF chk.ok
              THEN /\ pc' = "select"
                   /\ domains' = chk.doms
                   /\ queue' = Append(queue, [variable |-> variable,
                                              values |-> Front(values),
                                              pushdomains |-> pushdomains])
              ELSE /\ pc' = "try"
                   /\ domains' = PopStates(chk.doms, pushdomains)
                   /\ UNCHANGED queue
    /\ UNCHANGED <<input_vars, problem, course_vars, preferred_constraints,
                   vconstraints, variable, pushdomains, solutions, solution, result,
                   call, history, outer_vars>>

\* no value is left for the variable: it is unbound and the solver goes back; with
\* nothing to go back to, the enumeration ends
Backtrack ==
    /\ pc = "try"
    /\ values = << >>
    /\ LET back == Unwind(queue, DelItem(assignments, variable), domains) IN
       /\ pc' = IF back.found THEN "try" ELSE "solved"
       /\ queue' = back.queue
       /\ assignments' = back.assignments
       /\ domains' = back.domains
       /\ variable' = back.variable
       /\ values' = back.values
       /\ pushdomains' = back.pushdomains
    /\ UNCHANGED <<input_vars, problem, course_vars, preferred_constraints,
                   vconstraints, solutions, bindings, solution, result, call, history, outer_vars>>

\* solve() takes solutions[0]; generate_timetable returns its failure triple on False
SolveReturn ==
    /\ pc = "solved"
    /\ IF solutions # << >>
       THEN /\ solution' = solutions[1]
            /\ pc' = "build"
            /\ UNCHANGED result
       ELSE /\ pc' = "done"
            /\ result' = FailureTriple(MsgInfeasible)
            /\ UNCHANGED solution
    /\ UNCHANGED <<input_vars, problem, course_vars, preferred_constraints,
                   solver_vars, call, history, outer_vars>>

\* build_timetable_dict, create_timetable_dataframe and the success triple
BuildTimetable ==
    /\ pc = "build"
    /\ IF BuildRaises(solution)
       THEN /\ pc' = "raised"
            /\ UNCHANGED result
       ELSE /\ pc' = "done"
            /\ result' = SuccessTriple(
                              create_timetable_dataframe(build_timetable_dict(solution)))
    /\ UNCHANGED <<input_vars, problem, course_vars, preferred_constraints,
                   solver_vars, solution, call, history, outer_vars>>

\* what a finished call hands to its caller
Outcome == [ended |-> pc, result |-> result, solution |-> solution]

\* the caller calls generate_timetable again with the same input: the locals of
\* the finished call are gone, the solver object is constructed anew by Begin
CallAgain ==
    /\ pc \in {"done", "raised"}
    /\ call < MaxCalls
    /\ call' = call + 1
    /\ history' = Append(history, Outcome)
    /\ pc' = "start"
    /\ result' = NoResult
    /\ course_vars' = << >>
    /\ preferred_constraints' = << >>
    /\ domains' = << >>
    /\ vconstraints' = << >>
    /\ assignments' = << >>
    /\ queue' = << >>
    /\ variable' = None
    /\ values' = << >>
    /\ pushdomains' = {}
    /\ solutions' = << >>
    /\ bindings' = 0
    /\ UNCHANGED <<input_vars, problem, solution, outer_vars>>

Next ==
    \/ Begin
    \/ AddVariables
    \/ AddFacultyAvailabilityConstraint
    \/ AddNoClashConstraint
    \/ AddPreferredDaysConstraint
    \/ SolveBegin
    \/ SelectVariable
    \/ YieldSolution
    \/ TryValue
    \/ Backtrack
    \/ SolveReturn
    \/ BuildTimetable

Spec == Init /\ [][Next]_vars

\* the same input handed to generate_timetable MaxCalls times in a row
NextRepeat == Next \/ CallAgain

SpecRepeat == Init /\ [][NextRepeat]_vars

----------------------------------------------------------------------------
(* Properties *)

Returned == pc = "done"
Succeeded == pc = "done" /\ result.success

\* the course and the slot of the i-th item of the returned solution
SolCourse(i) == CourseIdOf(solution[i][1])
SolSlot(i) == solution[i][2]

\* a faculty id's available periods on a day, read straight from the input
AvailablePeriods(fid, day) ==
    IF fid \in DOMAIN faculty_data /\ day \in DOMAIN faculty_data[fid].available_slots
    THEN faculty_data[fid].available_slots[day]
    ELSE {}

\* the slots of a course's domain in which all its required faculty are known and free
Candidates(cid) ==
    { slot \in Range(CourseDomain(course_data[cid])) :
        \A fid \in Range(course_data[cid].required_faculty_ids) :
            /\ fid \in DOMAIN faculty_data
            /\ \A p \in slot[2]..slot[3] : p \in AvailablePeriods(fid, slot[1]) }

SharePeriod(s1, s2) ==
    s1[1] = s2[1] /\ \E p \in 1..7 : p \in s1[2]..s1[3] /\ p \in s2[2]..s2[3]

ShareFaculty(c1, c2) ==
    Range(course_data[c1].required_faculty_ids)
        \cap Range(course_data[c2].required_faculty_ids) # {}

\* some complete assignment of candidate slots keeps courses with shared faculty apart
Feasible ==
    \E f \in [DOMAIN course_data -> UNION {Candidates(c) : c \in DOMAIN course_data}] :
        /\ \A c \in DOMAIN course_data : f[c] \in Candidates(c)
        /\ \A c1, c2 \in DOMAIN course_data :
              (c1 < c2 /\ ShareFaculty(c1, c2)) => ~SharePeriod(f[c1], f[c2])

\* C1: in every successful result, two distinct scheduled courses that share a
\* required faculty id are on different days or in disjoint period ranges.
Thm_C1_NoClash ==
    Succeeded =>
        \A i, j \in DOMAIN solution :
            (i # j /\ ShareFaculty(SolCourse(i), SolCourse(j)))
                => ~SharePeriod(SolSlot(i), SolSlot(j))

\* two courses sharing a faculty were placed on the same day
Wit_C1_SameDayShared ==
    /\ Succeeded
    /\ \E i, j \in DOMAIN solution :
          /\ i # j
          /\ ShareFaculty(SolCourse(i), SolCourse(j))
          /\ SolSlot(i)[1] = SolSlot(j)[1]

\* C2: in every successful result, every period of a course's assigned range is in
\* the available_slots, for the assigned day, of every faculty the course requires.
Thm_C2_Availability ==
    Succeeded =>
        \A i \in DOMAIN solution :
            \A fid \in Range(course_data[SolCourse(i)].required_faculty_ids) :
                \A p \in SolSlot(i)[2]..SolSlot(i)[3] :
                    p \in AvailablePeriods(fid, SolSlot(i)[1])

\* a two-period course requiring two faculty was placed
Wit_C2_TwoFacultyBlock ==
    /\ Succeeded
    /\ \E i \in DOMAIN solution :
          /\ Len(course_data[SolCourse(i)].required_faculty_ids) = 2
          /\ SolSlot(i)[3] > SolSlot(i)[2]

\* C3: the domain add_variables builds for a block_size-2 course holds, on every
\* day, exactly the windows (1,2), (3,4) and (6,7): none that straddles a break.
Cex_C3_LabDomainAvoidsBreaks ==
    pc = "vars" =>
        \A cid \in DOMAIN course_data :
            course_data[cid].block_size = 2 =>
                \A d \in Range(DAYS) :
                    { <<slot[2], slot[3]>> :
                        slot \in { s \in Range(problem.variables[course_vars[cid]].vis) :
                                      s[1] = d } }
                    = { <<1, 2>>, <<3, 4>>, <<6, 7>> }

\* a range that runs over a break
StraddlesBreak(slot) == \E i \in DOMAIN BREAKS : slot[2] <= BREAKS[i] /\ BREAKS[i] < slot[3]

\* C4: no successful result assigns a LAB course a slot whose range crosses a break
\* (Scenario D: the window (2,3) is never returned).
Cex_C4_NoBreakStraddlingSlot ==
    Succeeded =>
        \A i \in DOMAIN solution :
            course_data[SolCourse(i)].type = "LAB" => ~StraddlesBreak(SolSlot(i))

\* C5 as stated: success is returned exactly when a complete assignment satisfying
\* the FacultyAvailability and NoClash constraints exists.
Cex_C5_SuccessIffFeasible == Returned => (result.success <=> Feasible)

\* C5 (amended): for a non-empty course_data, success is returned exactly when a
\* complete assignment of domain slots satisfying the FacultyAvailability and
\* NoClash constraints exists; empty course_data returns the no-courses failure.
Thm_C5_SuccessIffFeasible ==
    Returned =>
        IF course_data = << >>
        THEN ~result.success /\ result.message = MsgNoCourses
        ELSE (result.success <=> Feasible) /\ (~result.success => result.message = MsgInfeasible)

\* the search ran over two courses and found no assignment
Wit_C5_SearchedInfeasible ==
    /\ Returned
    /\ ~result.success
    /\ bindings > 0
    /\ Len(course_data) >= 2

\* C6: after solve returns True the solution binds every course id handed to
\* add_variables exactly once, to a slot of that course's domain, and nothing else.
Thm_C6_SolutionComplete ==
    (pc = "build" \/ Succeeded) =>
        /\ Keys(solution) = { VarName(cid) : cid \in DOMAIN course_data }
        /\ Len(solution) = Len(course_data)
        /\ \A i \in DOMAIN solution :
              SolSlot(i) \in Range(CourseDomain(course_data[SolCourse(i)]))

\* solve returned True for a problem of several courses
Wit_C6_SeveralCoursesBound == pc = "build" /\ Len(solution) >= 2

\* C7: the grid is present exactly when success is true; a failure carries no grid
\* and a message naming the failure.
Thm_C7_OutputContract ==
    Returned =>
        /\ (result.grid # None) <=> result.success
        /\ ~result.success =>
              (result.grid = None /\ result.message \in {MsgNoCourses, MsgInfeasible})
        /\ result.success => result.message = MsgSuccess

\* a call failed after the search had run
Wit_C7_FailureAfterSearch == Returned /\ ~result.success /\ bindings > 0

\* C8: a later call on the same input ends as every earlier call did: the same
\* outcome and, on success, the same assignment of slots to courses.
Thm_C8_Deterministic ==
    (pc \in {"done", "raised"} /\ history # << >>) =>
        \A i \in DOMAIN history : history[i] = Outcome

\* a repeated call succeeded on an input that has more than one solution
Wit_C8_RepeatedChoice ==
    /\ call > 1
    /\ Succeeded
    /\ Len(solutions) > 1

\* some scheduled course requires a faculty id that faculty_data does not hold
UnknownFacultyReferenced ==
    \E cid \in DOMAIN course_data :
        \E fid \in Range(course_data[cid].required_faculty_ids) : fid \notin DOMAIN faculty_data

\* C9: a course referencing an unknown faculty id ends the call in an input-error
\* outcome that is never reported as the ordinary no-feasible-solution outcome.
Cex_C9_UnknownFacultyIsInputError ==
    (pc \in {"done", "raised"} /\ UnknownFacultyReferenced) =>
        ~(pc = "done" /\ result = FailureTriple(MsgInfeasible))

\* some course has no slot left once the availability of its faculty is applied
EmptyAfterFiltering == \E cid \in DOMAIN course_data : Candidates(cid) = {}

\* C10: when some course's domain is empty after availability filtering, no
\* variable is ever tentatively bound in the call, and the call reports Infeasible.
Thm_C10_EmptyDomainShortCircuits ==
    EmptyAfterFiltering =>
        /\ bindings = 0
        /\ pc \notin {"select", "try", "build"}
        /\ Returned => result = [success |-> FALSE, grid |-> None, message |-> MsgInfeasible]

\* a call ended with one course's domain emptied while another course had slots
Wit_C10_EmptyBesideNonEmpty ==
    /\ Returned
    /\ EmptyAfterFiltering
    /\ \E cid \in DOMAIN course_data : Candidates(cid) # {}

----------------------------------------------------------------------------
(* Bounded search *)

\* a node-count budget a caller would want to hand to solve
NodeBudget == 4

\* C11: the search of one solve call never makes more tentative bindings than
\* the node budget of its caller; past the budget the call would have to end
\* with a timeout outcome of its own.  solve() takes no budget and
\* getSolutions enumerates every solution before it returns.
Cex_C11_SearchWithinBudget == bindings <= NodeBudget

----------------------------------------------------------------------------
(* Calls on loosely filled course records: the engine reads the type, the    *)
(* block size, the faculty list and the section of a course with .get, the   *)
(* code with course['code']                                                  *)

\* a dict entry that may be missing: opt is << >> or <<value>>
OptionalField(key, opt) == IF opt = << >> THEN << >> ELSE key :> opt[1]

LooseCourseRecord(cid, bs, code, section) ==
    [type |-> IF bs = 2 THEN "LAB" ELSE "THEORY",
     required_faculty_ids |-> <<1>>,
     block_size |-> bs]
        @@ OptionalField("code", code) @@ OptionalField("section_id", section)

LooseCourseChoices(cid) ==
    { LooseCourseRecord(cid, bs, code, section) :
        bs \in {1, 2},
        code \in {<< >>, <<CourseCode(cid)>>},
        section \in {<< >>, <<SectionA>>, <<SectionB>>} }

LooseCourseDataChoices ==
    UNION { { cd \in [1..n -> UNION {LooseCourseChoices(c) : c \in 1..n}] :
                \A c \in 1..n : cd[c] \in LooseCourseChoices(c) } : n \in 1..MaxCourses }

LooseFaculty == [f \in {1} |-> FacultyRecord(f, [d \in {"Monday"} |-> {2, 3}])]

InitLoose ==
    /\ faculty_data = LooseFaculty
    /\ course_data \in LooseCourseDataChoices
    /\ constraints_data = << >>
    /\ section_name \in {SectionA, SectionB}
    /\ InitCall
    /\ NoOuter

SpecLoose == InitLoose /\ [][Next]_vars

\* C12: every generate_timetable call ends in an outcome returned as a value;
\* no exception raised inside the call escapes it.  generate_timetable wraps
\* nothing but getSolutions in a try: the KeyError of build_timetable_dict
\* leaves the call.
Cex_C12_NoExceptionEscapes == pc # "raised"

----------------------------------------------------------------------------
(* The same faculty and courses, first without and then with preferences *)

\* the locals of a finished call are gone when the next call starts
FreshLocals ==
    /\ pc' = "start"
    /\ result' = NoResult
    /\ course_vars' = << >>
    /\ preferred_constraints' = << >>
    /\ domains' = << >>
    /\ vconstraints' = << >>
    /\ assignments' = << >>
    /\ queue' = << >>
    /\ variable' = None
    /\ values' = << >>
    /\ pushdomains' = {}
    /\ solutions' = << >>
    /\ bindings' = 0

\* constraints_data with at least one preferred-days record
PreferenceChoices ==
    { [k \in {1} |-> [course_id |-> 1, preferred_days |-> <<"Friday">>]],
      [k \in {1} |-> [course_id |-> 1, preferred_days |-> <<"Tuesday">>]],
      [k \in {1, 2} |-> [course_id |-> k, preferred_days |-> <<"Monday", "Friday">>]] }

InitPref ==
    /\ faculty_data \in FacultyDataChoices
    /\ course_data \in CourseDataChoices
    /\ constraints_data = << >>
    /\ section_name = SectionA
    /\ InitCall
    /\ NoOuter

\* the caller repeats the call, this time with preferred days
CallWithPreferences ==
    /\ pc \in {"done", "raised"}
    /\ constraints_data = << >>
    /\ constraints_data' \in PreferenceChoices
    /\ call' = call + 1
    /\ history' = Append(history, Outcome)
    /\ FreshLocals
    /\ UNCHANGED <<faculty_data, course_data, section_name, problem, solution,
                   outer_vars>>

NextPref == Next \/ CallWithPreferences

SpecPref == InitPref /\ [][NextPref]_vars

----------------------------------------------------------------------------
(* Two generate_timetable calls in progress at once (the endpoint is served   *)
(* by a pool of threads): the steps of the two calls interleave               *)

\* the Problem a call works on is the one its own TimetableCSP constructed
OwnProblemShared(own, other) == other

\* TimetableCSP.__init__: self.problem is an attribute of the instance
OwnProblem(own, other) == own

\* the state of the running call, put aside when the other call gets to run
Running(id) ==
    [id |-> id,
     faculty_data |-> faculty_data, course_data |-> course_data,
     constraints_data |-> constraints_data, section_name |-> section_name,
     pc |-> pc, problem |-> OwnProblem(problem, parked.problem),
     course_vars |-> course_vars,
     preferred_constraints |-> preferred_constraints, domains |-> domains,
     vconstraints |-> vconstraints, assignments |-> assignments, queue |-> queue,
     variable |-> variable, values |-> values, pushdomains |-> pushdomains,
     solutions |-> solutions, solution |-> solution, result |-> result,
     bindings |-> bindings, call |-> call, history |-> history]

\* inputs of the interleaved calls: two courses of one faculty with two free
\* cells, one lab, two courses of one faculty with a single free cell
InterleaveInputs ==
    { [faculty_data |-> [f \in {1} |-> FacultyRecord(f, [d \in {"Monday"} |-> {2, 3}])],
       course_data |-> [c \in {1, 2} |-> CourseRecord(c, 1, <<1>>)]],
      [faculty_data |-> [f \in {1} |-> FacultyRecord(f, [d \in {"Monday"} |-> {2, 3}])],
       course_data |-> [c \in {1} |-> CourseRecord(c, 2, <<1>>)]],
      [faculty_data |-> [f \in {1} |-> FacultyRecord(f, [d \in {"Monday"} |-> {3}])],
       course_data |-> [c \in {1, 2} |-> CourseRecord(c, 1, <<1>>)]] }

\* a call that has not started yet, waiting for its turn
NotStarted(id, input) ==
    [id |-> id,
     faculty_data |-> input.faculty_data, course_data |-> input.course_data,
     constraints_data |-> << >>, section_name |-> SectionA,
     pc |-> "start", problem |-> NewProblem, course_vars |-> << >>,
     preferred_constraints |-> << >>, domains |-> << >>, vconstraints |-> << >>,
     assignments |-> << >>, queue |-> << >>, variable |-> None, values |-> << >>,
     pushdomains |-> {}, solutions |-> << >>, solution |-> << >>,
     result |-> NoResult, bindings |-> 0, call |-> MaxCalls, history |-> << >>]

InitInterleave ==
    /\ \E first \in InterleaveInputs :
          /\ faculty_data = first.faculty_data
          /\ course_data = first.course_data
    /\ constraints_data = << >>
    /\ section_name = SectionA
    /\ InitCall
    /\ \E second \in InterleaveInputs : parked = NotStarted("second", second)
    /\ validated_df = None
    /\ violations = None
    /\ request = None
    /\ response = None
    /\ arguments = None
    /\ returned = None

\* the scheduler lets the other call run; the first caller has made one call
\* alone before the second caller starts
Switch ==
    /\ parked # None
    /\ parked.id = "first" \/ history # << >>
    /\ parked' = Running(IF parked.id = "first" THEN "second" ELSE "first")
    /\ faculty_data' = parked.faculty_data
    /\ course_data' = parked.course_data
    /\ constraints_data' = parked.constraints_data
    /\ section_name' = parked.section_name
    /\ pc' = parked.pc
    /\ problem' = OwnProblem(parked.problem, problem)
    /\ course_vars' = parked.course_vars
    /\ preferred_constraints' = parked.preferred_constraints
    /\ domains' = parked.domains
    /\ vconstraints' = parked.vconstraints
    /\ assignments' = parked.assignments
    /\ queue' = parked.queue
    /\ variable' = parked.variable
    /\ values' = parked.values
    /\ pushdomains' = parked.pushdomains
    /\ solutions' = parked.solutions
    /\ solution' = parked.solution
    /\ result' = parked.result
    /\ bindings' = parked.bindings
    /\ call' = parked.call
    /\ history' = parked.history
    /\ UNCHANGED <<validated_df, violations, request, response, arguments, returned>>

NextInterleave == Next \/ CallAgain \/ Switch

SpecInterleave == InitInterleave /\ [][NextInterleave]_vars

\* C14: a call whose steps interleave with the steps of another call ends as
\* it ends when it runs alone: the first caller's interleaved call ends as its
\* call made alone ended, and the second caller's call on the same input ends
\* that way too.
Thm_C14_CallsIndependent ==
    (parked # None /\ pc \in {"done", "raised"})
        => /\ parked.id = "second"
              => \A i \in DOMAIN history : history[i] = Outcome
           /\ ( /\ parked.id = "first"
                /\ parked.faculty_data = faculty_data
                /\ parked.course_data = course_data )
              => \A i \in DOMAIN parked.history : parked.history[i] = Outcome

\* the first caller's second call has ended while the other call, on another
\* input, is in the middle of its search
Wit_C14_EndedBesideSearch ==
    /\ parked # None
    /\ parked.id = "second"
    /\ history # << >>
    /\ pc = "done"
    /\ parked.pc = "try"
    /\ parked.course_data # course_data

----------------------------------------------------------------------------
(* Frame of a call *)

\* C15: no step of a generate_timetable call (construction, add_variables, the
\* constraint builders, solve, materialization) changes faculty_data,
\* course_data or constraints_data, whether the call succeeds or fails.
Thm_C15_InputsReadOnly ==
    [][/\ faculty_data' = faculty_data
       /\ course_data' = course_data
       /\ constraints_data' = constraints_data]_vars

\* a call that went through every step with a preference record read and stored
Wit_C15_AllInputsRead ==
    /\ Returned
    /\ bindings > 0
    /\ Len(course_data) >= 2
    /\ constraints_data # << >>
    /\ preferred_constraints # << >>

----------------------------------------------------------------------------
(* The grid of a successful call *)

\* the cell (day, p) of the returned grid
GridCell(day, p) ==
    result.grid[CHOOSE i \in DOMAIN result.grid : result.grid[i].Day = day].cells[p]

\* the cells an item of the solution covers
Covers(i, day, p) ==
    /\ SolSlot(i)[1] = day
    /\ SolSlot(i)[2] <= p
    /\ p <= SolSlot(i)[3]

\* C16: in the grid built from a complete solution every cell from the start to
\* the end of a course's slot holds that course's label, and every cell no slot
\* covers is empty.  Two courses without a common faculty can be bound to the
\* same cell, and the label written later replaces the earlier one.
Cex_C16_GridHoldsEverySlot ==
    Succeeded =>
        \A day \in Range(DAYS), p \in Range(SCHEDULABLE_PERIODS) :
            /\ \A i \in DOMAIN solution :
                  Covers(i, day, p)
                      => GridCell(day, p) = ScheduleStr(course_data[SolCourse(i)])
            /\ (\A i \in DOMAIN solution : ~Covers(i, day, p))
                  => GridCell(day, p) = EmptyCell

----------------------------------------------------------------------------
(* validate_solution, applied to grids built from any assignment of slots *)

\* the loop over the cells of the grid: a non-empty cell is looked at and
\* nothing is recorded for it
RECURSIVE ScanCells(_, _, _)
ScanCells(timetable_dict, i, found) ==
    IF i > Len(DayPeriodPairs) THEN found
    ELSE LET slot_str == Get(timetable_dict[DayPeriodPairs[i][1]],
                             DayPeriodPairs[i][2], EmptyCell)
         IN  IF slot_str # EmptyCell
             THEN ScanCells(timetable_dict, i + 1, found)
             ELSE ScanCells(timetable_dict, i + 1, found)

\* validate_solution(timetable_dict, course_data, faculty_data)
validate_solution(timetable_dict, courses, faculty) ==
    ScanCells(timetable_dict, 1, << >>)

\* assignments handed to build_timetable_dict: a theory course anywhere on
\* Monday or Tuesday, then a lab anywhere on Monday
ValidatedAssignments ==
    { << <<VarName(1), <<day, p, p>>>>, <<VarName(2), <<"Monday", q, q + 1>>>> >> :
        day \in {"Monday", "Tuesday"}, p \in Range(SCHEDULABLE_PERIODS), q \in 1..6 }

InitValidate ==
    /\ faculty_data \in { [f \in {1} |-> FacultyRecord(f, a)] :
                            a \in {[d \in {"Monday"} |-> {3}],
                                   [d \in {"Monday", "Tuesday"} |-> {2, 3}]} }
    /\ course_data = <<CourseRecord(1, 1, <<1>>), CourseRecord(2, 2, <<1>>)>>
    /\ constraints_data = << >>
    /\ section_name = SectionA
    /\ pc = "validate"
    /\ problem = NewProblem
    /\ course_vars = << >>
    /\ preferred_constraints = << >>
    /\ IdleSolver
    /\ solution = << >>
    /\ result = NoResult
    /\ call = 1
    /\ history = << >>
    /\ parked = None
    /\ validated_df \in {build_timetable_dict(sol) : sol \in ValidatedAssignments}
    /\ violations = None
    /\ request = None
    /\ response = None
    /\ arguments = None
    /\ returned = None

ValidateSolution ==
    /\ pc = "validate"
    /\ pc' = "validated"
    /\ violations' = validate_solution(validated_df, course_data, faculty_data)
    /\ UNCHANGED <<input_vars, problem, course_vars, preferred_constraints,
                   solver_vars, solution, result, call, history, parked,
                   validated_df, request, response, arguments, returned>>

NextValidate == ValidateSolution

SpecValidate == InitValidate /\ [][NextValidate]_vars

\* the faculty a cell label names
FacultyNamed(label) ==
    {fid \in DOMAIN faculty_data : faculty_data[fid].name \in Range(label[2])}

\* some non-empty cell of the grid places a faculty outside their availability
\* (a cell holds one label, so the grid itself cannot show one faculty in two
\* courses at one period)
GridViolatesAvailability ==
    \E day \in Range(DAYS), p \in Range(SCHEDULABLE_PERIODS) :
        /\ validated_df[day][p] # EmptyCell
        /\ \E fid \in FacultyNamed(validated_df[day][p]) :
              p \notin AvailablePeriods(fid, day)

\* C17: validate_solution reports at least one violation whenever a non-empty
\* cell of the grid places a faculty outside their availability, and none when
\* the constraints hold.  The validator looks at every cell and records nothing.
Cex_C17_ValidatorReports ==
    pc = "validated" => ((violations # << >>) <=> GridViolatesAvailability)

----------------------------------------------------------------------------
(* The section of a call *)

----------------------------------------------------------------------------
(* Scenario B: two courses of one faculty *)

\* course_data is two THEORY courses that both require the one faculty fid
TwoTheoryCoursesOf(fid) ==
    /\ Len(course_data) = 2
    /\ \A c \in DOMAIN course_data :
          /\ course_data[c].type = "THEORY"
          /\ course_data[c].block_size = 1
          /\ course_data[c].required_faculty_ids = <<fid>>

\* the (day, period) cells in which a faculty is available over the week
AvailableCells(fid) ==
    {dp \in Range(DayPeriodPairs) : dp[2] \in AvailablePeriods(fid, dp[1])}

\* C19: two THEORY courses that both require the same faculty: with a single
\* available (day, period) cell over the week generate_timetable returns
\* success=false; with at least two cells it returns success=true and the two
\* courses lie in slots that do not overlap.
Thm_C19_ScenarioBPigeonhole ==
    \A fid \in DOMAIN faculty_data :
        (Returned /\ TwoTheoryCoursesOf(fid))
            => /\ Cardinality(AvailableCells(fid)) = 1 => ~result.success
               /\ Cardinality(AvailableCells(fid)) >= 2
                     => /\ result.success
                        /\ Len(solution) = 2
                        /\ \/ solution[1][2][1] # solution[2][2][1]
                           \/ solution[1][2][3] < solution[2][2][2]
                           \/ solution[2][2][3] < solution[1][2][2]

\* the search bound both courses one after the other into the single free cell
\* and the call reported failure
Wit_C19_SingleCellFails ==
    /\ Returned
    /\ ~result.success
    /\ bindings >= 1
    /\ \E fid \in DOMAIN faculty_data :
          TwoTheoryCoursesOf(fid) /\ Cardinality(AvailableCells(fid)) = 1

----------------------------------------------------------------------------
(* generate_timetable_endpoint: POST /api/generate-timetable *)

\* the section_id of the request, stored in every course record; it is a
\* number and never equals the name of a section
RequestedSectionId == "section 1"

\* the course dict the endpoint builds from a Course row
EndpointCourseRecord(cid, course_type, req) ==
    [code |-> CourseCode(cid),
     type |-> course_type,
     required_faculty_ids |-> req,
     block_size |-> IF course_type = "LAB" THEN 2 ELSE 1,
     section_id |-> RequestedSectionId]

\* the Course table: empty, one course, or two courses of faculty 1
EndpointCourseTables ==
    { << >>,
      <<EndpointCourseRecord(1, "THEORY", <<1>>)>>,
      <<EndpointCourseRecord(1, "LAB", <<1>>)>>,
      <<EndpointCourseRecord(1, "THEORY", <<1>>), EndpointCourseRecord(2, "THEORY", <<1>>)>>,
      <<EndpointCourseRecord(1, "LAB", <<1>>), EndpointCourseRecord(2, "THEORY", <<1>>)>> }

\* the Faculty table: faculty 1 with one, two or three free cells
EndpointFacultyTables ==
    { [f \in {1} |-> FacultyRecord(f, a)] :
        a \in {[d \in {"Monday"} |-> {3}],
               [d \in {"Monday"} |-> {2, 3}],
               [d \in {"Monday"} |-> {1, 2, 3}]} }

\* raise HTTPException(status_code, detail)
HTTPException(status_code, detail) ==
    [status |-> status_code, detail |-> detail, timetable |-> None]

\* df.to_dict(orient="records"): one record per row of the frame
to_dict_records(df) == [i \in 1..Len(df) |-> [Day |-> df[i].Day, cells |-> df[i].cells]]

\* an endpoint whose except Exception clause also takes the HTTPException
\* raised for a failed generation
ResponseOfSwallowing(ended, triple) ==
    IF ended = "raised" \/ ~triple.success
    THEN HTTPException(500, "Error generating timetable")
    ELSE [status |-> 200, detail |-> triple.message,
          timetable |-> to_dict_records(triple.grid)]

\* what the endpoint answers once generate_timetable has ended: an exception
\* becomes 500, a failure triple 400 with its message, success the timetable
ResponseOf(ended, triple) ==
    IF ended = "raised"
    THEN HTTPException(500, "Error generating timetable")
    ELSE IF ~triple.success
    THEN HTTPException(400, triple.message)
    ELSE [status |-> 200, detail |-> triple.message,
          timetable |-> to_dict_records(triple.grid)]

InitEndpoint ==
    /\ request \in [section_found : BOOLEAN, query_fails : BOOLEAN]
    /\ response = None
    /\ faculty_data \in EndpointFacultyTables
    /\ course_data \in EndpointCourseTables
    /\ constraints_data = << >>
    /\ section_name = SectionA
    /\ pc = "request"
    /\ problem = NewProblem
    /\ course_vars = << >>
    /\ preferred_constraints = << >>
    /\ IdleSolver
    /\ solution = << >>
    /\ result = NoResult
    /\ call = 1
    /\ history = << >>
    /\ parked = None
    /\ validated_df = None
    /\ violations = None
    /\ arguments = None
    /\ returned = None

\* the endpoint looks the section up and reads the tables
EndpointFetch ==
    /\ pc = "request"
    /\ IF ~request.section_found
       THEN /\ pc' = "responded"
            /\ response' = HTTPException(404, "Section not found")
       ELSE IF request.query_fails
       THEN /\ pc' = "responded"
            /\ response' = HTTPException(500, "Error generating timetable")
       ELSE /\ pc' = "start"
            /\ UNCHANGED response
    /\ UNCHANGED <<input_vars, problem, course_vars, preferred_constraints,
                   solver_vars, solution, result, call, history, parked,
                   validated_df, violations, request, arguments, returned>>

\* generate_timetable has ended: the endpoint answers
EndpointRespond ==
    /\ pc \in {"done", "raised"}
    /\ pc' = "responded"
    /\ response' = ResponseOf(pc, result)
    /\ history' = Append(history, Outcome)
    /\ UNCHANGED <<input_vars, problem, course_vars, preferred_constraints,
                   solver_vars, solution, result, call, parked, validated_df,
                   violations, request, arguments, returned>>

NextEndpoint == EndpointFetch \/ Next \/ EndpointRespond

SpecEndpoint == InitEndpoint /\ [][NextEndpoint]_vars

\* the engine was never entered
EngineNotInvoked ==
    /\ history = << >>
    /\ result = NoResult
    /\ problem = NewProblem
    /\ course_vars = << >>
    /\ bindings = 0

\* C20: the endpoint returns a timetable only when the engine reported
\* success; an engine failure (false, message) becomes an error response
\* carrying that message, an unexpected exception a 5xx response, and a missing
\* section 404 without the engine being invoked.
Thm_C20_EndpointOutcomeMapping ==
    pc = "responded" =>
        /\ (response.status = 200 \/ response.timetable # None)
              => /\ history # << >>
                 /\ history[1].ended = "done"
                 /\ history[1].result.success
                 /\ response.status = 200
                 /\ response.timetable = history[1].result.grid
        /\ (history # << >> /\ history[1].ended = "done" /\ ~history[1].result.success)
              => /\ response.status \in 400..499
                 /\ response.detail = history[1].result.message
        /\ ((history # << >> /\ history[1].ended = "raised")
               \/ (request.section_found /\ request.query_fails))
              => response.status \in 500..599
        /\ ~request.section_found => (response.status = 404 /\ EngineNotInvoked)

\* the endpoint answered a failed generation after a search
Wit_C20_FailureAnswered ==
    /\ pc = "responded"
    /\ history # << >>
    /\ ~history[1].result.success
    /\ bindings > 0
    /\ response.detail = MsgInfeasible

----------------------------------------------------------------------------
(* Calls on course records whose block_size is missing, 1, 2 or 3 and does    *)
(* not have to agree with the type                                            *)

ShapeCourseRecord(cid, course_type, block_size) ==
    [code |-> CourseCode(cid),
     type |-> course_type,
     required_faculty_ids |-> <<1>>]
        @@ OptionalField("block_size", block_size)

ShapeCourseChoices(cid) ==
    { ShapeCourseRecord(cid, course_type, block_size) :
        course_type \in {"THEORY", "LAB"},
        block_size \in {<< >>, <<1>>, <<2>>, <<3>>} }

ShapeCourseDataChoices ==
    UNION { { cd \in [1..n -> UNION {ShapeCourseChoices(c) : c \in 1..n}] :
                \A c \in 1..n : cd[c] \in ShapeCourseChoices(c) } : n \in 1..MaxCourses }

InitShape ==
    /\ faculty_data \in { [f \in {1} |-> FacultyRecord(f, a)] :
                            a \in {[d \in {"Monday"} |-> {2, 3}],
                                   [d \in {"Monday"} |-> {1, 2, 3}]} }
    /\ course_data \in ShapeCourseDataChoices
    /\ constraints_data = << >>
    /\ section_name = SectionA
    /\ InitCall
    /\ NoOuter

SpecShape == InitShape /\ [][Next]_vars

\* the slots of the domain add_variables gave to a course
DomainSlots(cid) == Range(problem.variables[VarName(cid)].vis)

\* C21: every slot of every domain add_variables builds is as wide as the
\* block_size its course declares (1 when it declares none) and lies inside
\* periods 1..7.  A block_size other than 2 gets the one-period domain.
Cex_C21_SlotWidthIsBlockSize ==
    pc = "vars" =>
        \A cid \in DOMAIN course_data :
            \A slot \in DomainSlots(cid) :
                /\ slot[3] - slot[2] + 1 = Get(course_data[cid], "block_size", 1)
                /\ 1 <= slot[2]
                /\ slot[2] <= slot[3]
                /\ slot[3] <= 7

\* C22: every LAB course gets a domain of two-period blocks and every THEORY
\* course a domain of one-period slots, whatever its block_size field says or
\* omits.  add_variables looks at block_size alone.
Cex_C22_BlockSizeFollowsKind ==
    pc = "vars" =>
        \A cid \in DOMAIN course_data :
            \A slot \in DomainSlots(cid) :
                slot[3] - slot[2] + 1 = (IF course_data[cid].type = "LAB" THEN 2 ELSE 1)

----------------------------------------------------------------------------
(* The constraints of the problem *)

\* the positions of the binary constraints over the variables of two courses
ConstraintsBetween(c1, c2) ==
    {k \in DOMAIN problem.constraints :
        /\ Len(problem.constraints[k].vars) = 2
        /\ Range(problem.constraints[k].vars) = {VarName(c1), VarName(c2)}}

\* C23: add_no_clash_constraint adds, for each unordered pair of scheduled
\* courses, exactly one no_clash constraint when their required_faculty_ids
\* intersect and none when they are disjoint.
Thm_C23_ClashConstraintIffShared ==
    pc \in {"clash", "pref"} =>
        /\ \A c1, c2 \in DOMAIN course_data :
              c1 < c2 =>
                  /\ Cardinality(ConstraintsBetween(c1, c2)) =
                        (IF ShareFaculty(c1, c2) THEN 1 ELSE 0)
                  /\ \A k \in ConstraintsBetween(c1, c2) :
                        problem.constraints[k].func = "no_clash"
        /\ \A k \in DOMAIN problem.constraints :
              Len(problem.constraints[k].vars) = 2
                  => \E c1, c2 \in DOMAIN course_data :
                        c1 < c2 /\ k \in ConstraintsBetween(c1, c2)

\* the builder ran on two courses whose faculty lists differ and intersect
Wit_C23_PartlySharedFaculty ==
    /\ pc = "clash"
    /\ Len(course_data) = 2
    /\ RequiredFaculty(1) # RequiredFaculty(2)
    /\ ShareFaculty(1, 2)

----------------------------------------------------------------------------
(* Functions of the module called on their own *)

\* no call of generate_timetable, no validator, no endpoint
OnItsOwn ==
    /\ faculty_data = << >>
    /\ course_data = << >>
    /\ constraints_data = << >>
    /\ section_name = SectionA
    /\ problem = NewProblem
    /\ course_vars = << >>
    /\ preferred_constraints = << >>
    /\ IdleSolver
    /\ solution = << >>
    /\ result = NoResult
    /\ call = 1
    /\ history = << >>
    /\ parked = None
    /\ validated_df = None
    /\ violations = None
    /\ request = None
    /\ response = None

\* every (day, start, end) with start <= end on two of the days
SlotChoices ==
    { slot \in { <<day, s, e>> : day \in {"Monday", "Tuesday"},
                                 s \in Range(PERIODS), e \in Range(PERIODS) } :
        slot[2] <= slot[3] }

InitNoClash ==
    /\ OnItsOwn
    /\ pc = "no_clash"
    /\ arguments \in SlotChoices \X SlotChoices
    /\ returned = None

\* the constraint function applied to two slots, in both orders
CallNoClash ==
    /\ pc = "no_clash"
    /\ pc' = "no_clash returned"
    /\ returned' = [value |-> no_clash(arguments[1], arguments[2]),
                    swapped |-> no_clash(arguments[2], arguments[1])]
    /\ UNCHANGED <<input_vars, problem, course_vars, preferred_constraints,
                   solver_vars, solution, result, call, history, parked,
                   validated_df, violations, request, response, arguments>>

NextNoClash == CallNoClash

SpecNoClash == InitNoClash /\ [][NextNoClash]_vars

\* C24: no_clash returns False exactly when the two slots are on the same day
\* and some period lies in both inclusive ranges (blocks that touch at an
\* endpoint clash), and it returns the same for the two slots swapped.
Thm_C24_NoClashIsInclusiveOverlap ==
    pc = "no_clash returned" =>
        LET slot1 == arguments[1]
            slot2 == arguments[2]
        IN  /\ (returned.value = FALSE)
                  <=> /\ slot1[1] = slot2[1]
                      /\ \E p \in Range(PERIODS) :
                            /\ slot1[2] <= p /\ p <= slot1[3]
                            /\ slot2[2] <= p /\ p <= slot2[3]
            /\ returned.value = returned.swapped

\* two blocks of the same day where the second starts in the period the first
\* ends in
Wit_C24_TouchingEndpoints ==
    /\ pc = "no_clash returned"
    /\ arguments[1][1] = arguments[2][1]
    /\ arguments[1][2] < arguments[1][3]
    /\ arguments[1][3] = arguments[2][2]
    /\ arguments[2][2] < arguments[2][3]
    /\ returned.value = FALSE

----------------------------------------------------------------------------
(* The extent of the search *)

\* C25: solve stops as soon as one complete consistent assignment is found and
\* returns it, without enumerating further solutions.  solve() calls
\* getSolutions(), which collects every solution before solutions[0] is taken.
Cex_C25_StopsAtFirstSolution ==
    /\ Len(solutions) <= 1
    /\ solutions # << >> => pc \notin {"select", "try"}

----------------------------------------------------------------------------
(* create_timetable_dataframe called on dictionaries of any shape *)

\* the label of a filled cell
SomeLabel == <<CourseCode(1), <<FacultyName(1)>>>>

\* a day's dictionary: no period, one, the first three, all seven, or seven and
\* one more
DayDictChoices ==
    { [p \in P |-> SomeLabel] : P \in {{}, {2}, {1, 2, 3}, 1..7, 1..8} }

\* dictionaries for every day, for every day but one, or for Monday alone;
\* Monday's dictionary and the others' are chosen apart
TimetableDictChoices ==
    { [day \in D |-> IF day = "Monday" THEN monday ELSE other] :
        D \in {Range(DAYS), Range(DAYS) \ {"Friday"}, Range(DAYS) \ {"Wednesday"},
               {"Monday"}},
        monday \in DayDictChoices, other \in DayDictChoices }

InitDataFrame ==
    /\ OnItsOwn
    /\ pc = "dataframe"
    /\ arguments \in TimetableDictChoices
    /\ returned = None

CallCreateDataFrame ==
    /\ pc = "dataframe"
    /\ IF DataFrameRaises(arguments)
       THEN /\ pc' = "dataframe raised"
            /\ UNCHANGED returned
       ELSE /\ pc' = "dataframe returned"
            /\ returned' = create_timetable_dataframe(arguments)
    /\ UNCHANGED <<input_vars, problem, course_vars, preferred_constraints,
                   solver_vars, solution, result, call, history, parked,
                   validated_df, violations, request, response, arguments>>

NextDataFrame == CallCreateDataFrame

SpecDataFrame == InitDataFrame /\ [][NextDataFrame]_vars

\* the frame has one row per day in DAYS order, each with its Day and a cell
\* for each of the seven periods, empty where the day's dictionary has none
FrameOfEveryDay ==
    /\ Len(returned) = Len(DAYS)
    /\ \A i \in 1..Len(DAYS) :
          /\ returned[i].Day = DAYS[i]
          /\ DOMAIN returned[i].cells = 1..7
          /\ \A p \in 1..7 :
                returned[i].cells[p] =
                    (IF p \in DOMAIN arguments[DAYS[i]]
                     THEN arguments[DAYS[i]][p] ELSE EmptyCell)

\* C26 as stated: create_timetable_dataframe always yields one row per day of
\* DAYS, in order, with a Day column and a column per period, a missing period
\* being rendered as the empty string rather than causing an error.
Cex_C26_AlwaysAFrame ==
    /\ pc # "dataframe raised"
    /\ pc = "dataframe returned" => FrameOfEveryDay

\* C26 (amended): for a dictionary that holds an entry for every day of DAYS,
\* create_timetable_dataframe yields one row per day of DAYS, in order, with a
\* Day column and a column per period, a period missing from a day's entry
\* being rendered as the empty string.
Thm_C26_FrameForEveryDayGiven ==
    (pc \in {"dataframe returned", "dataframe raised"}
        /\ \A i \in 1..Len(DAYS) : DAYS[i] \in DOMAIN arguments)
            => (pc = "dataframe returned" /\ FrameOfEveryDay)

\* a frame was built from a dictionary with a day that has no period at all
\* and a day that has a period beyond the seventh
Wit_C26_MissingPeriodsRendered ==
    /\ pc = "dataframe returned"
    /\ arguments["Monday"] = << >>
    /\ 8 \in DOMAIN arguments["Tuesday"]

----------------------------------------------------------------------------
(* One grid for one section *)

\* C27: in every successful result no two distinct courses cover the same
\* (day, period) cell, sharing faculty or not, so that every scheduled course
\* appears in the grid.  Courses without a common faculty get no constraint
\* between them.
Cex_C27_CellsExclusive ==
    Succeeded =>
        /\ \A i, j \in DOMAIN solution :
              i # j => ~SharePeriod(SolSlot(i), SolSlot(j))
        /\ \A i \in DOMAIN solution :
              \E day \in Range(DAYS), p \in Range(SCHEDULABLE_PERIODS) :
                  GridCell(day, p) = ScheduleStr(course_data[SolCourse(i)])

----------------------------------------------------------------------------
(* add_variables called several times on one TimetableCSP, as the tests call  *)
(* it: csp.add_variables("II Year IT A", [2])                                 *)

\* three courses of faculty 1, each a theory course or a lab
CatalogChoices ==
    { cd \in [1..3 -> UNION {CourseChoices(c) : c \in 1..3}] :
        \A c \in 1..3 : cd[c] \in {CourseRecord(c, 1, <<1>>), CourseRecord(c, 2, <<1>>)} }

\* the lists of course ids handed to one call: up to two ids of the catalog
CourseListChoices ==
    {<< >>} \cup {<<c>> : c \in 1..3} \cup {<<c1, c2>> : c1 \in 1..3, c2 \in 1..3}

\* csp = TimetableCSP(faculty_data, course_data), nothing added yet
InitAddVariables ==
    /\ faculty_data = LooseFaculty
    /\ course_data \in CatalogChoices
    /\ constraints_data = << >>
    /\ section_name = SectionA
    /\ InitCall
    /\ NoOuter

\* TimetableCSP(faculty_data, course_data) constructed outside generate_timetable
Construct ==
    /\ pc = "start"
    /\ pc' = "constructed"
    /\ problem' = InitProblem(problem)
    /\ UNCHANGED <<input_vars, course_vars, preferred_constraints, solver_vars,
                   solution, result, call, history, outer_vars>>

\* one more csp.add_variables(section_name, courses) on the same object
CallAddVariables ==
    /\ pc = "constructed"
    /\ \E courses \in CourseListChoices :
          LET added == AddEach(courses, 1, problem.variables, << >>) IN
          /\ pc' = IF added.raised THEN "raised" ELSE "constructed"
          /\ problem' = [problem EXCEPT !.variables = added.variables]
          /\ course_vars' = added.course_vars
    /\ UNCHANGED <<input_vars, preferred_constraints, solver_vars, solution, result,
                   call, history, outer_vars>>

NextAddVariables == Construct \/ CallAddVariables

SpecAddVariables == InitAddVariables /\ [][NextAddVariables]_vars

\* C28: after any sequence of add_variables calls on one TimetableCSP,
\* course_vars maps exactly the course ids that have a variable in the problem,
\* each to course_<id>.  Every call starts course_vars from {} while the
\* problem keeps the variables of the calls before.
Cex_C28_CourseVarsMatchProblem ==
    /\ \A course_id \in DOMAIN course_vars : course_vars[course_id] = VarName(course_id)
    /\ {VarName(course_id) : course_id \in DOMAIN course_vars} = DOMAIN problem.variables

----------------------------------------------------------------------------
(* Calls on faculty records that may have no available_slots at all *)

\* a faculty record whose available_slots is missing, empty, or names one or
\* two days
SparseFacultyRecord(fid, slots) ==
    [name |-> FacultyName(fid), is_external |-> FALSE]
        @@ OptionalField("available_slots", slots)

SparseSlotsChoices ==
    { << >>,
      << << >> >>,
      <<[d \in {"Monday"} |-> {2, 3}]>>,
      <<[d \in {"Monday", "Tuesday"} |-> {2, 3}]>> }

InitSparse ==
    /\ faculty_data \in { [f \in {1, 2} |-> SparseFacultyRecord(f, IF f = 1 THEN a ELSE b)] :
                            a \in SparseSlotsChoices, b \in SparseSlotsChoices }
    /\ course_data \in CourseDataChoices
    /\ constraints_data = << >>
    /\ section_name = SectionA
    /\ InitCall
    /\ NoOuter

SpecSparse == InitSparse /\ [][Next]_vars

\* the days for which a faculty record has an entry
DaysWithEntry(fid) ==
    IF "available_slots" \in DOMAIN faculty_data[fid]
    THEN DOMAIN faculty_data[fid].available_slots
    ELSE {}

\* C29: a faculty with no available_slots entry for a day, or with no
\* available_slots at all, is unavailable on that day: no successful result
\* places a course that requires the faculty on it.
Thm_C29_NoEntryMeansUnavailable ==
    Succeeded =>
        \A i \in DOMAIN solution :
            \A fid \in RequiredFaculty(SolCourse(i)) :
                /\ fid \in DOMAIN faculty_data
                /\ SolSlot(i)[1] \in DaysWithEntry(fid)

\* a course was placed on the only day its faculty has an entry for, beside a
\* faculty whose record has no available_slots
Wit_C29_PlacedOnDayWithEntry ==
    /\ Succeeded
    /\ \E i \in DOMAIN solution :
          \E fid \in RequiredFaculty(SolCourse(i)) : DaysWithEntry(fid) = {"Monday"}
    /\ \E fid \in DOMAIN faculty_data : "available_slots" \notin DOMAIN faculty_data[fid]

----------------------------------------------------------------------------
(* No course to schedule *)

\* C30: with an empty course_data generate_timetable returns (False, None,
\* "No courses found for section.") and never gets to constructing the solver,
\* adding variables or searching.
Thm_C30_EmptyCourseDataReturnsEarly ==
    course_data = << >> =>
        /\ pc \in {"start", "done"}
        /\ problem = NewProblem
        /\ course_vars = << >>
        /\ domains = << >>
        /\ solutions = << >>
        /\ bindings = 0
        /\ Returned =>
              /\ result.success = FALSE
              /\ result.grid = None
              /\ result.message = "No courses found for section."

\* the call on an empty course_data, with faculty and a preference record
\* given, has returned
Wit_C30_ReturnedWithoutCourses ==
    /\ Returned
    /\ course_data = << >>
    /\ DOMAIN faculty_data = {1, 2}
    /\ constraints_data # << >>

====
